---- MODULE Spec2Model ----
(***************************************************************************)
(* Model of HealthDataExtractor.py (Apple Health export.xml -> CSV files). *)
(*                                                                         *)
(* A Python str is modelled as a sequence of symbols.  For type            *)
(* identifiers the symbols are the tokens "HK", "TypeIdentifier" and an    *)
(* ordinary token; for attribute values they are single characters.  A     *)
(* Python dict / Counter / OrderedDict is a sequence of <<key, value>>     *)
(* pairs in insertion order.  An optional value (dict.get) is a sequence   *)
(* of length 0 (None) or 1.  The attributes that exist on self are the     *)
(* members of the set attrs.                                               *)
(*                                                                         *)
(* The f-string of format_value is read as Python >= 3.12 reads it; older  *)
(* interpreters reject the module with a SyntaxError.                      *)
(***************************************************************************)
EXTENDS Integers, Sequences, FiniteSets, TLC

VARIABLES input, nodes, pc, attrs, record_types, other_types, tags, fields,
          handles, paths, files, stdout, stages, summary, last, arg, res

vars == <<input, nodes, pc, attrs, record_types, other_types, tags, fields,
          handles, paths, files, stdout, stages, summary, last, arg, res>>

progVars == <<input, nodes, pc, attrs, record_types, other_types, tags, fields,
              handles, paths, files, stdout, stages, summary, last>>

(* ------------------------------ bounds --------------------------------- *)

MaxNodes == 2

MaxNameLen == 3

MaxStrLen == 3

MaxValLen == 1

(* ------------------------------ helpers -------------------------------- *)

SeqsUpTo(S, n) == UNION {[1..k -> S] : k \in 0..n}

NoAttrib == [k \in {} |-> <<>>]

RECURSIVE DictIndex(_, _, _)
DictIndex(d, k, i) ==
    IF i > Len(d) THEN 0
    ELSE IF d[i][1] = k THEN i
    ELSE DictIndex(d, k, i + 1)

DictHas(d, k) == DictIndex(d, k, 1) # 0

DictGet(d, k) == d[DictIndex(d, k, 1)][2]

DictSet(d, k, v) ==
    IF DictHas(d, k)
    THEN [d EXCEPT ![DictIndex(d, k, 1)] = <<k, v>>]
    ELSE Append(d, <<k, v>>)

DictKeys(d) == [i \in 1..Len(d) |-> d[i][1]]

\* Counter[k]: a missing key reads as 0
CounterGet(c, k) == IF DictHas(c, k) THEN DictGet(c, k) ELSE 0

\* Counter[k] += 1
CounterInc(c, k) == DictSet(c, k, CounterGet(c, k) + 1)

RECURSIVE Join(_, _)
Join(ss, sep) ==
    IF Len(ss) = 0 THEN <<>>
    ELSE IF Len(ss) = 1 THEN ss[1]
    ELSE ss[1] \o <<sep>> \o Join(Tail(ss), sep)

(* --------------------------- schema registry --------------------------- *)

RECORD_FIELDS ==
    << <<"sourceName", "s">>, <<"sourceVersion", "s">>, <<"device", "s">>,
       <<"type", "s">>, <<"unit", "s">>, <<"creationDate", "d">>,
       <<"startDate", "d">>, <<"endDate", "d">>, <<"value", "n">> >>

ACTIVITY_SUMMARY_FIELDS ==
    << <<"dateComponents", "d">>, <<"activeEnergyBurned", "n">>,
       <<"activeEnergyBurnedGoal", "n">>, <<"activeEnergyBurnedUnit", "s">>,
       <<"appleExerciseTime", "s">>, <<"appleExerciseTimeGoal", "s">>,
       <<"appleStandHours", "n">>, <<"appleStandHoursGoal", "n">> >>

WORKOUT_FIELDS ==
    << <<"sourceName", "s">>, <<"sourceVersion", "s">>, <<"device", "s">>,
       <<"creationDate", "d">>, <<"startDate", "d">>, <<"endDate", "d">>,
       <<"workoutActivityType", "s">>, <<"duration", "n">>,
       <<"durationUnit", "s">>, <<"totalDistance", "n">>,
       <<"totalDistanceUnit", "s">>, <<"totalEnergyBurned", "n">>,
       <<"totalEnergyBurnedUnit", "s">> >>

Record == <<"Record">>

ActivitySummary == <<"ActivitySummary">>

Workout == <<"Workout">>

Export == <<"Export">>

Me == <<"Me">>

FIELDS ==
    << <<Record, RECORD_FIELDS>>,
       <<ActivitySummary, ACTIVITY_SUMMARY_FIELDS>>,
       <<Workout, WORKOUT_FIELDS>> >>

(* ------------------------- type-name normalizer ------------------------ *)

\* PREFIX_RE = '^HK.*TypeIdentifier(.+)$': the positions of a
\* "TypeIdentifier" token that has "HK" at the start before it and at least
\* one token after it
PREFIX_RE(name) ==
    {i \in 2..(Len(name) - 1) : name[1] = "HK" /\ name[i] = "TypeIdentifier"}

\* re.match: m is None (<<>>) or the match whose '.*' is greedy, so group(1)
\* starts after the last admissible "TypeIdentifier"
Match(name) ==
    IF PREFIX_RE(name) = {} THEN <<>>
    ELSE LET i == CHOOSE j \in PREFIX_RE(name) : \A k \in PREFIX_RE(name) : k <= j
         IN  << SubSeq(name, i + 1, Len(name)) >>

\* a variant that returns an unmatched name unchanged instead of raising
shorten_type_name_lenient(name) ==
    LET m == Match(name)
    IN  IF m = <<>> THEN [exc |-> "None", val |-> name]
        ELSE [exc |-> "None", val |-> m[1]]

\* shorten_type_name: m.group(1); m = None raises AttributeError
shorten_type_name(name) ==
    LET m == Match(name)
    IN  IF m = <<>> THEN [exc |-> "AttributeError", val |-> <<>>]
        ELSE [exc |-> "None", val |-> m[1]]

(* ---------------------------- value formatter -------------------------- *)

BS == "\\"

DQ == "\""

COMMA == ","

NL == "\n"

\* str.replace(old, new) for a one-character old
RECURSIVE Replace(_, _, _)
Replace(s, old, new) ==
    IF Len(s) = 0 THEN <<>>
    ELSE (IF Head(s) = old THEN new ELSE <<Head(s)>>) \o Replace(Tail(s), old, new)

\* a variant that escapes the double quotes before the backslashes
format_value_quotes_first(value, datatype) ==
    IF value = <<>> THEN [exc |-> "None", val |-> <<>>]
    ELSE IF datatype = "s"
    THEN [exc |-> "None",
          val |-> <<DQ>> \o Replace(Replace(value[1], DQ, <<BS, DQ>>), BS, <<BS, BS>>)
                         \o <<DQ>>]
    ELSE IF datatype \in {"n", "d"} THEN [exc |-> "None", val |-> value[1]]
    ELSE [exc |-> "KeyError", val |-> <<>>]

\* format_value(value, datatype); value is <<>> for None, <<v>> otherwise
format_value(value, datatype) ==
    IF value = <<>> THEN [exc |-> "None", val |-> <<>>]
    ELSE IF datatype = "s"
    THEN [exc |-> "None",
          val |-> <<DQ>> \o Replace(Replace(value[1], BS, <<BS, BS>>), DQ, <<BS, DQ>>)
                         \o <<DQ>>]
    ELSE IF datatype \in {"n", "d"} THEN [exc |-> "None", val |-> value[1]]
    ELSE [exc |-> "KeyError", val |-> <<>>]

\* attributes.get(field)
AttribGet(attrib, field) ==
    IF field \in DOMAIN attrib THEN <<attrib[field]>> ELSE <<>>

\* a variant that formats only the attributes the node carries
RowValuesPresentOnly(tag, attrib) ==
    LET schema == SelectSeq(DictGet(FIELDS, tag), LAMBDA fd : fd[1] \in DOMAIN attrib)
    IN  [i \in 1..Len(schema) |->
            format_value(AttribGet(attrib, schema[i][1]), schema[i][2])]

\* write_record, lines 200-202: the values of one node in schema order and
\* the line built from them
RowValues(tag, attrib) ==
    LET schema == DictGet(FIELDS, tag)
    IN  [i \in 1..Len(schema) |->
            format_value(AttribGet(attrib, schema[i][1]), schema[i][2])]

RowLine(tag, attrib) ==
    LET values == RowValues(tag, attrib)
    IN  IF \E i \in 1..Len(values) : values[i].exc # "None"
        THEN [exc |-> "KeyError", val |-> <<>>]
        ELSE [exc |-> "None",
              val |-> Join([i \in 1..Len(values) |-> values[i].val], COMMA) \o <<NL>>]

(* ------------------------------ the inputs ----------------------------- *)

NameTokens == {"HK", "TypeIdentifier", "A"}

\* type identifiers that do or do not begin with the vendor prefix
TypeNames ==
    {n \in SeqsUpTo(NameTokens, MaxNameLen) : Len(n) > 0 /\ n[1] \in {"HK", "A"}}

OtherTags == {ActivitySummary, Workout, Export, Me, <<"Foo">>}

\* the top-level children of the document root: Record entries with or
\* without a type attribute, other entries with or without an attribute
NodeChoices ==
    {[tag |-> Record, attrib |-> NoAttrib]}
    \cup {[tag |-> Record, attrib |-> [k \in {"type"} |-> n]] : n \in TypeNames}
    \cup {[tag |-> t, attrib |-> NoAttrib] : t \in OtherTags}
    \cup {[tag |-> t, attrib |-> [k \in {"value"} |-> <<"1">>]] : t \in OtherTags}

NoCall == [call |-> "none", exc |-> "None"]

(* ------------------- HealthDataExtractor.__init__ ---------------------- *)

\* lines 109-118: the document is parsed and its children listed
Init ==
    /\ \E k \in 0..MaxNodes : input \in [1..k -> NodeChoices]
    /\ nodes = input
    /\ pc = "loaded"
    /\ attrs = {}
    /\ record_types = <<>>
    /\ other_types = <<>>
    /\ tags = <<>>
    /\ fields = <<>>
    /\ handles = <<>>
    /\ paths = <<>>
    /\ files = <<>>
    /\ stdout = <<>>
    /\ stages = <<>>
    /\ summary = <<>>
    /\ last = NoCall
    /\ arg = <<>>
    /\ res = <<>>

RECURSIVE ShortenLoop(_, _)
ShortenLoop(ns, i) ==
    IF i > Len(ns) THEN [exc |-> "None", nodes |-> ns]
    ELSE IF ns[i].tag = Record /\ "type" \in DOMAIN ns[i].attrib
    THEN LET r == shorten_type_name(ns[i].attrib["type"])
         IN  IF r.exc # "None" THEN [exc |-> r.exc, nodes |-> ns]
             ELSE ShortenLoop([ns EXCEPT ![i].attrib["type"] = r.val], i + 1)
    ELSE ShortenLoop(ns, i + 1)

shorten_type_names ==
    /\ pc = "loaded"
    /\ LET r == ShortenLoop(nodes, 1)
       IN  /\ nodes' = r.nodes
           /\ pc' = IF r.exc = "None" THEN "normalized" ELSE "failed"
           /\ last' = [call |-> "shorten_type_names", exc |-> r.exc]
    /\ UNCHANGED <<input, attrs, record_types, other_types, tags, fields,
                   handles, paths, files, stdout, stages, summary, arg, res>>

\* a variant that counts every tag other than Record as a singular kind
RECURSIVE CountRecordLoopAllTags(_, _, _, _, _)
CountRecordLoopAllTags(ns, i, rt, ot, out) ==
    IF i > Len(ns)
    THEN [exc |-> "None", record_types |-> rt, other_types |-> ot, stdout |-> out]
    ELSE IF ns[i].tag = Record
    THEN IF "type" \notin DOMAIN ns[i].attrib
         THEN [exc |-> "KeyError", record_types |-> rt, other_types |-> ot,
               stdout |-> out]
         ELSE CountRecordLoopAllTags(ns, i + 1,
                                     CounterInc(rt, ns[i].attrib["type"]), ot, out)
    ELSE CountRecordLoopAllTags(ns, i + 1, rt, CounterInc(ot, ns[i].tag), out)

RECURSIVE CountRecordLoop(_, _, _, _, _)
CountRecordLoop(ns, i, rt, ot, out) ==
    IF i > Len(ns)
    THEN [exc |-> "None", record_types |-> rt, other_types |-> ot, stdout |-> out]
    ELSE IF ns[i].tag = Record
    THEN IF "type" \notin DOMAIN ns[i].attrib
         THEN [exc |-> "KeyError", record_types |-> rt, other_types |-> ot,
               stdout |-> out]
         ELSE CountRecordLoop(ns, i + 1, CounterInc(rt, ns[i].attrib["type"]), ot, out)
    ELSE IF ns[i].tag \in {ActivitySummary, Workout}
    THEN CountRecordLoop(ns, i + 1, rt, CounterInc(ot, ns[i].tag), out)
    ELSE IF ns[i].tag \in {Export, Me}
    THEN CountRecordLoop(ns, i + 1, rt, ot, out)
    ELSE CountRecordLoop(ns, i + 1, rt, ot, Append(out, ns[i].tag))

count_record_types ==
    /\ pc = "normalized"
    /\ LET r == CountRecordLoop(nodes, 1, <<>>, <<>>, stdout)
       IN  /\ record_types' = r.record_types
           /\ other_types' = r.other_types
           /\ stdout' = r.stdout
           /\ pc' = IF r.exc = "None" THEN "classified" ELSE "failed"
           /\ last' = [call |-> "count_record_types", exc |-> r.exc]
    /\ attrs' = attrs \cup {"record_types", "other_types"}
    /\ UNCHANGED <<input, nodes, tags, fields, handles, paths, files, stages,
                   summary, arg, res>>

\* line 176 reads self.field, an attribute that is never assigned: the
\* first attribute key of any node raises AttributeError
RECURSIVE CountTagsLoop(_, _, _, _)
CountTagsLoop(ns, i, tg, fl) ==
    IF i > Len(ns) THEN [exc |-> "None", tags |-> tg, fields |-> fl]
    ELSE IF DOMAIN ns[i].attrib # {}
    THEN [exc |-> "AttributeError", tags |-> CounterInc(tg, ns[i].tag), fields |-> fl]
    ELSE CountTagsLoop(ns, i + 1, CounterInc(tg, ns[i].tag), fl)

count_tags_and_fields ==
    /\ pc = "classified"
    /\ LET r == CountTagsLoop(nodes, 1, <<>>, <<>>)
       IN  /\ tags' = r.tags
           /\ fields' = r.fields
           /\ pc' = IF r.exc = "None" THEN "ready" ELSE "failed"
           /\ last' = [call |-> "count_tags_and_fields", exc |-> r.exc]
    /\ attrs' = attrs \cup {"tags", "fields"}
    /\ UNCHANGED <<input, nodes, record_types, other_types, handles, paths,
                   files, stdout, stages, summary, arg, res>>

(* --------------- the methods called on a constructed engine ------------ *)

CSV == ".csv"

\* line 191: ','.join(FIELDS[header_type].keys()) + '\n'
HeaderLine(header_type) ==
    LET schema == DictGet(FIELDS, header_type)
    IN  Join([i \in 1..Len(schema) |-> <<schema[i][1]>>], COMMA) \o <<NL>>

\* lines 186-191, one kind per iteration; h, p, f are self.handles,
\* self.paths and the files of the output directory
RECURSIVE OpenLoop(_, _, _, _, _)
OpenLoop(kinds, i, h, p, f) ==
    IF i > Len(kinds) THEN [exc |-> "None", handles |-> h, paths |-> p, files |-> f]
    ELSE LET kind == kinds[i]
             r == shorten_type_name(kind)
             path == r.val \o <<CSV>>
             header_type == IF kind \in {Workout, ActivitySummary} THEN kind ELSE Record
         IN  IF r.exc # "None"
             THEN [exc |-> r.exc, handles |-> h, paths |-> p, files |-> f]
             ELSE OpenLoop(kinds, i + 1,
                           DictSet(h, kind, [path |-> path, state |-> "open"]),
                           DictSet(p, kind, path),
                           DictSet(f, path, <<HeaderLine(header_type)>>))

\* open_for_writing as a whole: handles and paths start empty
OpenForWriting(rt, ot, f) ==
    OpenLoop(DictKeys(rt) \o DictKeys(ot), 1, <<>>, <<>>, f)

open_for_writing ==
    /\ pc = "ready"
    /\ LET r == OpenForWriting(record_types, other_types, files)
       IN  /\ handles' = r.handles
           /\ paths' = r.paths
           /\ files' = r.files
           /\ last' = [call |-> "open_for_writing", exc |-> r.exc]
    /\ attrs' = attrs \cup {"handles", "paths"}
    /\ UNCHANGED <<input, nodes, pc, record_types, other_types, tags, fields,
                   stdout, stages, summary, arg, res>>

\* lines 195-203, one node per iteration
RECURSIVE WriteLoop(_, _, _, _, _)
WriteLoop(ns, i, at, h, f) ==
    IF i > Len(ns) THEN [exc |-> "None", files |-> f]
    ELSE IF ~DictHas(FIELDS, ns[i].tag) THEN WriteLoop(ns, i + 1, at, h, f)
    ELSE IF ns[i].tag = Record /\ "type" \notin DOMAIN ns[i].attrib
    THEN [exc |-> "KeyError", files |-> f]
    ELSE LET kind == IF ns[i].tag = Record THEN ns[i].attrib["type"] ELSE ns[i].tag
             line == RowLine(ns[i].tag, ns[i].attrib)
         IN  IF line.exc # "None" THEN [exc |-> line.exc, files |-> f]
             ELSE IF "handles" \notin at THEN [exc |-> "AttributeError", files |-> f]
             ELSE IF ~DictHas(h, kind) THEN [exc |-> "KeyError", files |-> f]
             ELSE IF DictGet(h, kind).state # "open"
             THEN [exc |-> "ValueError", files |-> f]
             ELSE LET path == DictGet(h, kind).path
                  IN  WriteLoop(ns, i + 1, at, h,
                                DictSet(f, path, Append(DictGet(f, path), line.val)))

write_record ==
    /\ pc = "ready"
    /\ LET r == WriteLoop(nodes, 1, attrs, handles, files)
       IN  /\ files' = r.files
           /\ last' = [call |-> "write_record", exc |-> r.exc]
    /\ UNCHANGED <<input, nodes, pc, attrs, record_types, other_types, tags,
                   fields, handles, paths, stdout, stages, summary, arg, res>>

\* lines 206-208: the first handle is closed, then self.report, which the
\* class does not define, raises AttributeError
CloseFiles(at, h) ==
    IF "handles" \notin at THEN [exc |-> "AttributeError", handles |-> h]
    ELSE IF Len(h) = 0 THEN [exc |-> "None", handles |-> h]
    ELSE [exc |-> "AttributeError",
          handles |-> [h EXCEPT ![1] = <<h[1][1], [h[1][2] EXCEPT !.state = "closed"]>>]]

close_files ==
    /\ pc = "ready"
    /\ LET r == CloseFiles(attrs, handles)
       IN  /\ handles' = r.handles
           /\ last' = [call |-> "close_files", exc |-> r.exc]
    /\ UNCHANGED <<input, nodes, pc, attrs, record_types, other_types, tags,
                   fields, paths, files, stdout, stages, summary, arg, res>>

\* lines 215-217: open_for_writing, then self.write_records(), a method the
\* class does not define (it defines write_record): AttributeError, so line
\* 217, self.close_files(), is never reached
extract ==
    /\ pc = "ready"
    /\ LET r == OpenForWriting(record_types, other_types, files)
       IN  /\ handles' = r.handles
           /\ paths' = r.paths
           /\ files' = r.files
           /\ stages' = IF r.exc = "None" THEN <<"SinksOpen">> ELSE <<>>
           /\ last' = [call |-> "extract",
                       exc |-> IF r.exc # "None" THEN r.exc ELSE "AttributeError"]
    /\ attrs' = attrs \cup {"handles", "paths"}
    /\ UNCHANGED <<input, nodes, pc, record_types, other_types, tags, fields,
                   stdout, summary, arg, res>>

\* lines 227-230: append_counter rebinds its own parameter s, the string it
\* builds, and returns None
AppendCounterLocal(s, name, counter) ==
    s \o << <<name>> >> \o [i \in 1..Len(counter) |-> counter[i]]

\* lines 224-241: the caller's s is still '' when it is returned
SummaryText(tg, fl, rt) ==
    LET s == <<>>
        l1 == AppendCounterLocal(s, <<"Tags">>, tg)
        l2 == AppendCounterLocal(s, <<"Fields">>, fl)
        l3 == AppendCounterLocal(s, <<"Record Types">>, rt)
    IN  s

to_str ==
    /\ pc = "ready"
    /\ summary' = SummaryText(tags, fields, record_types)
    /\ last' = [call |-> "__str__", exc |-> "None"]
    /\ UNCHANGED <<input, nodes, pc, attrs, record_types, other_types, tags,
                   fields, handles, paths, files, stdout, stages, arg, res>>

Next ==
    \/ shorten_type_names
    \/ count_record_types
    \/ count_tags_and_fields
    \/ extract
    \/ open_for_writing
    \/ write_record
    \/ close_files
    \/ to_str

Spec == Init /\ [][Next]_vars

(* -------------------- the pure functions on their own ------------------ *)

Chars == {"a", BS, DQ, COMMA}

Strings == SeqsUpTo(Chars, MaxStrLen)

Datatypes == {"s", "n", "d", "x"}

Pending == [exc |-> "pending", val |-> <<>>]

ProgIdle ==
    /\ input = <<>>
    /\ nodes = <<>>
    /\ pc = "idle"
    /\ attrs = {}
    /\ record_types = <<>>
    /\ other_types = <<>>
    /\ tags = <<>>
    /\ fields = <<>>
    /\ handles = <<>>
    /\ paths = <<>>
    /\ files = <<>>
    /\ stdout = <<>>
    /\ stages = <<>>
    /\ summary = <<>>
    /\ last = NoCall

\* format_value applied to every value and datatype within the bounds
InitFormat ==
    /\ ProgIdle
    /\ arg \in {[value |-> v, datatype |-> d] :
                   v \in {<<>>} \cup {<<x>> : x \in Strings}, d \in Datatypes}
    /\ res = Pending

apply_format_value ==
    /\ res = Pending
    /\ res' = format_value(arg.value, arg.datatype)
    /\ UNCHANGED <<progVars, arg>>

NextFormat == apply_format_value

SpecFormat == InitFormat /\ [][NextFormat]_vars

\* the row of write_record built for every known tag and every attribute
\* map over three attributes: a string and a timestamp of the Record and
\* Workout schemas and a number of the Record schema alone
RowKeys == {"sourceName", "startDate", "value"}

RowVals == SeqsUpTo(Chars, MaxValLen)

InitRow ==
    /\ ProgIdle
    /\ \E t \in {Record, ActivitySummary, Workout}, K \in SUBSET RowKeys :
          arg \in {[tag |-> t, attrib |-> a] : a \in [K -> RowVals]}
    /\ res = Pending

build_row ==
    /\ res = Pending
    /\ res' = RowLine(arg.tag, arg.attrib)
    /\ UNCHANGED <<progVars, arg>>

NextRow == build_row

SpecRow == InitRow /\ [][NextRow]_vars

(* ------------------------------ properties ----------------------------- *)

KnownTags == {Record, ActivitySummary, Workout, Export, Me}

CountTag(t) == Cardinality({i \in 1..Len(input) : input[i].tag = t})

CountKey(k) == Cardinality({i \in 1..Len(input) : k \in DOMAIN input[i].attrib})

IsRecordWithType(n) == n.tag = Record /\ "type" \in DOMAIN n.attrib

\* the suffixes <Rest> of a name of the form HK...TypeIdentifier<Rest>
Rests(name) == {SubSeq(name, j + 1, Len(name)) : j \in PREFIX_RE(name)}

BadRecord(n) == IsRecordWithType(n) /\ PREFIX_RE(n.attrib["type"]) = {}

\* the kinds with at least one entry in the input
ObservedKinds ==
    UNION {Rests(input[i].attrib["type"]) :
              i \in {j \in 1..Len(input) : IsRecordWithType(input[j])}}
    \cup {t \in {Workout, ActivitySummary} : CountTag(t) > 0}

DiscoveredKinds == DictKeys(record_types) \o DictKeys(other_types)

\* the lines after the header in the file of a kind, 0 if there is no file
DataLines(kind) ==
    IF DictHas(files, kind \o <<CSV>>)
    THEN Len(DictGet(files, kind \o <<CSV>>)) - 1
    ELSE 0

ExtractEnded == last.call = "extract"

\* C1: after HealthDataExtractor(path) and extract(), the file of every
\* Record subtype holds record_types[subtype] lines after its header, and
\* the Workout and ActivitySummary files hold other_types[kind] such lines.
C1_LinesEqualCounters ==
    ExtractEnded =>
        /\ \A i \in 1..Len(record_types) :
              DataLines(record_types[i][1]) = record_types[i][2]
        /\ \A k \in {Workout, ActivitySummary} :
              DataLines(k) = CounterGet(other_types, k)

\* C2: a run of extract() passes through SinksOpen, Written, Closed in that
\* order, each once, and ends with every opened sink closed.
C2_ExtractReachesClosed ==
    ExtractEnded =>
        /\ last.exc = "None"
        /\ stages = <<"SinksOpen", "Written", "Closed">>
        /\ \A i \in 1..Len(handles) : handles[i][2].state = "closed"

\* C4: open_for_writing creates, for every discovered kind, exactly one file
\* named <kind>.csv whose first line is the comma-joined field names of the
\* kind's schema (the Record schema for a Record subtype).
C4_OneFilePerKind ==
    last.call \in {"open_for_writing", "extract"} =>
        /\ Len(files) = Len(DiscoveredKinds)
        /\ \A i \in 1..Len(DiscoveredKinds) :
              LET kind == DiscoveredKinds[i]
                  path == kind \o <<CSV>>
                  schema == IF kind \in {Workout, ActivitySummary} THEN kind ELSE Record
              IN  /\ DictHas(files, path)
                  /\ Len(DictGet(files, path)) >= 1
                  /\ DictGet(files, path)[1] = HeaderLine(schema)

\* C5: in every state the sinks that exist, and the kinds for which
\* open_for_writing creates one, are kinds with at least one entry in the
\* input: never a kind with zero entries, an unknown tag, Export or Me.
C5_SinksOnlyForObserved ==
    /\ \A i \in 1..Len(files) :
          \E k \in ObservedKinds : files[i][1] = k \o <<CSV>>
    /\ \A i \in 1..Len(handles) : handles[i][1] \in ObservedKinds
    /\ \A i \in 1..Len(DiscoveredKinds) : DiscoveredKinds[i] \in ObservedKinds

\* C5 witness: open_for_writing has run on an input that has an entry of a
\* singular kind, none of the other one, and an entry that is no kind.
C5_Witness ==
    /\ last.call \in {"open_for_writing", "extract"}
    /\ CountTag(Workout) > 0
    /\ CountTag(ActivitySummary) = 0
    /\ \E i \in 1..Len(input) : input[i].tag \in {Export, Me, <<"Foo">>}

\* C6: with an entry of an unknown tag in the input, extract() completes,
\* no file exists for the tag, and the summary lists the tag.
C6_UnknownTagNonFatal ==
    LET unknown == {input[i].tag : i \in 1..Len(input)} \ KnownTags
    IN  unknown # {} =>
            /\ ExtractEnded =>
                  /\ last.exc = "None"
                  /\ \A t \in unknown : ~DictHas(files, t \o <<CSV>>)
            /\ last.call = "__str__" =>
                  \A t \in unknown : \E j \in 1..Len(summary) : summary[j][1] = t

\* C7: if a Record's type does not match HK...TypeIdentifier<Rest>, the run
\* fails in normalization, before classification and before any sink or
\* output exists; once classification has run, every Record has been
\* normalized and every key of record_types is a <Rest> suffix of an input
\* type and not itself of the verbose form.
C7_NormalizeBeforeClassify ==
    /\ (\E i \in 1..Len(input) : BadRecord(input[i])) =>
          /\ pc \in {"loaded", "failed"}
          /\ pc = "failed" => last = [call |-> "shorten_type_names",
                                      exc |-> "AttributeError"]
          /\ "record_types" \notin attrs
          /\ record_types = <<>> /\ other_types = <<>>
          /\ files = <<>> /\ handles = <<>>
    /\ "record_types" \in attrs =>
          /\ \A i \in 1..Len(input) :
                IsRecordWithType(input[i]) =>
                    nodes[i].attrib["type"] \in Rests(input[i].attrib["type"])
          /\ \A i \in 1..Len(record_types) :
                /\ PREFIX_RE(record_types[i][1]) = {}
                /\ \E j \in 1..Len(input) :
                      /\ IsRecordWithType(input[j])
                      /\ record_types[i][1] \in Rests(input[j].attrib["type"])

\* C7 witness: the run has failed in normalization on a second Record whose
\* type does not match, after the first Record was shortened.
C7_Witness ==
    /\ pc = "failed"
    /\ last.call = "shorten_type_names"
    /\ Len(input) = 2
    /\ IsRecordWithType(input[1]) /\ PREFIX_RE(input[1].attrib["type"]) # {}
    /\ nodes[1].attrib["type"] # input[1].attrib["type"]
    /\ BadRecord(input[2])

\* C8: the counting pass ends without error, tags[t] is the number of
\* entries with tag t, and fields[k] the number of entries that carry
\* attribute k.
C8_TagAndFieldCounts ==
    "tags" \in attrs =>
        /\ pc # "failed"
        /\ \A i \in 1..Len(input) :
              CounterGet(tags, input[i].tag) = CountTag(input[i].tag)
        /\ \A k \in {"type", "value"} : CounterGet(fields, k) = CountKey(k)

\* every backslash doubled and every double quote preceded by a backslash
RECURSIVE Escaped(_)
Escaped(s) ==
    IF Len(s) = 0 THEN <<>>
    ELSE (IF Head(s) = BS THEN <<BS, BS>>
          ELSE IF Head(s) = DQ THEN <<BS, DQ>>
          ELSE <<Head(s)>>) \o Escaped(Tail(s))

\* the escaping reversed: a backslash stands for the character after it
RECURSIVE Unescaped(_)
Unescaped(s) ==
    IF Len(s) = 0 THEN <<>>
    ELSE IF Head(s) = BS /\ Len(s) >= 2 THEN <<s[2]>> \o Unescaped(Tail(Tail(s)))
    ELSE <<Head(s)>> \o Unescaped(Tail(s))

Example == <<"He said ", DQ, "hi", DQ, BS, "back">>

ExampleFormatted ==
    <<DQ, "He said ", BS, DQ, "hi", BS, DQ, BS, BS, "back", DQ>>

\* C9: format_value(s, 's') is s with every backslash doubled and every
\* double quote preceded by a backslash, inside outer double quotes;
\* dropping the outer quotes and reversing the escaping gives s back; and
\* He said "hi"\back formats to "He said \"hi\"\\back".
C9_FormatRoundTrip ==
    /\ format_value(<<Example>>, "s") = [exc |-> "None", val |-> ExampleFormatted]
    /\ (res # Pending /\ arg.value # <<>> /\ arg.datatype = "s") =>
          /\ res.exc = "None"
          /\ res.val = <<DQ>> \o Escaped(arg.value[1]) \o <<DQ>>
          /\ Unescaped(SubSeq(res.val, 2, Len(res.val) - 1)) = arg.value[1]

\* C9 witness: a string with a backslash and a double quote was formatted.
C9_Witness ==
    /\ res # Pending
    /\ arg.datatype = "s"
    /\ arg.value # <<>>
    /\ \E i, j \in 1..Len(arg.value[1]) :
          arg.value[1][i] = BS /\ arg.value[1][j] = DQ

\* the fields of a line as a CSV reader separates them: a comma separates
\* unless it is inside a double-quoted string, where a backslash escapes
RECURSIVE Split(_, _, _, _, _)
Split(s, i, cur, inq, acc) ==
    IF i > Len(s) THEN Append(acc, cur)
    ELSE IF inq /\ s[i] = BS /\ i < Len(s)
    THEN Split(s, i + 2, cur \o <<s[i], s[i + 1]>>, inq, acc)
    ELSE IF s[i] = DQ THEN Split(s, i + 1, Append(cur, s[i]), ~inq, acc)
    ELSE IF s[i] = COMMA /\ ~inq THEN Split(s, i + 1, <<>>, inq, Append(acc, cur))
    ELSE Split(s, i + 1, Append(cur, s[i]), inq, acc)

RowFields(line) == Split(SubSeq(line, 1, Len(line) - 1), 1, <<>>, FALSE, <<>>)

\* the field a schema column must hold for an attribute map
ExpectedField(attrib, fd) ==
    IF fd[1] \notin DOMAIN attrib THEN <<>>
    ELSE IF fd[2] = "s" THEN <<DQ>> \o Escaped(attrib[fd[1]]) \o <<DQ>>
    ELSE attrib[fd[1]]

RowAsExpected ==
    LET schema == DictGet(FIELDS, arg.tag)
    IN  /\ res.exc = "None"
        /\ Len(res.val) >= 1 /\ res.val[Len(res.val)] = NL
        /\ Len(RowFields(res.val)) = Len(schema)
        /\ \A i \in 1..Len(schema) :
              RowFields(res.val)[i] = ExpectedField(arg.attrib, schema[i])

\* the number and timestamp attributes of the row hold no comma and no quote
PlainNumbersAndDates ==
    \A i \in 1..Len(DictGet(FIELDS, arg.tag)) :
        LET fd == DictGet(FIELDS, arg.tag)[i]
        IN  (fd[2] \in {"n", "d"} /\ fd[1] \in DOMAIN arg.attrib) =>
                \A j \in 1..Len(arg.attrib[fd[1]]) :
                    arg.attrib[fd[1]][j] \notin {COMMA, DQ}

====
